---- MODULE Spec2Model ----
(***************************************************************************)
(* ECMWF BUFR tropical-cyclone forecast decoder of climada_petals          *)
(* (hazard/tc_tracks_forecast.py): TCForecast.fetch_ecmwf,                 *)
(* read_one_bufr_tc, get_value_from_bufr_array, _check_variable and        *)
(* _subset_to_track, as a state machine over one run of fetch_ecmwf.       *)
(*                                                                         *)
(* Conventions.  Floating-point values are integers; NaN is one            *)
(* distinguished integer.  Python's 0-based member index is kept: the      *)
(* per-member dictionaries are functions on 0..n_ens-1, arrays are         *)
(* sequences (position index+1).  A value returned by                      *)
(* get_value_from_bufr_array is kept as a sequence: length 1 is a scalar,  *)
(* any other length is the whole array the function returned.  In the same *)
(* way a per-member series of length 1 is the 0-dimensional array that     *)
(* np.array(x[ind_ens]) builds and np.append never produces.               *)
(***************************************************************************)
EXTENDS Integers, Sequences, FiniteSets, TLC

\* ------------------------------------------------------------------ bounds
MaxFiles == 2
MaxEns == 2
MaxSteps == 2
MaxIrregular == 2
MaxRows == 3
MaxUndefined == 3
MaxCount == 3
MaxMembers == 101
MaxTracks == 2
MaxCxmlRows == 3

\* --------------------------------------------------------------- constants
MISSING_DOUBLE == -100000
MISSING_LONG == 2147483647
NaN == -1
SIG_CENTRE == 1
SIG_MAXWIND == 3
DEF_ENV_PRESSURE == 1010

SaffirKnots == <<34, 64, 83, 96, 113, 137, 1000>>

\* Saffir-Simpson hurricane categories in m/s (line 77).
SAFFIR_MS_CAT == <<18, 33, 43, 50, 59, 71, 1000>>

\* The defined value the field reader delivers for each field.
FieldValue(f) ==
    CASE f = "lat" -> 10
      [] f = "lon" -> 20
      [] f = "pre" -> 100000
      [] f = "wnd" -> 30

\* ------------------------------------------------------- sequence helpers
\* The non-empty sequences over S of length at most n.
SeqsUpTo(S, n) == UNION {[1..k -> S] : k \in 1..n}

Repeat(x, n) == [i \in 1..n |-> x]

\* ----------------------------------------- what the field reader delivers
\* codes_get_array on a float field of a message with n subsets: any array of
\* length 1..n+1 of the defined value and the missing sentinel.
DoubleArrays(f, n) == SeqsUpTo({FieldValue(f), MISSING_DOUBLE}, n + 1)

RegularDouble(f, n) == Repeat(FieldValue(f), n)

\* codes_get_array of meteorologicalAttributeSignificance.
SigArrays == SeqsUpTo({SIG_CENTRE, SIG_MAXWIND, MISSING_LONG}, 2)

\* codes_get_array of #t#timePeriod: the regular lead time is 6 t hours.
LeadArrays(t) == SeqsUpTo({6 * t, 0, MISSING_LONG}, 2)

RegularLead(t) == <<6 * t>>

\* codes_get_array of ensembleForecastType: 0 is the deterministic run.
EnsTypeArrays(n) == SeqsUpTo({0, 1}, n + 1)

RegularEnsType(n) == Repeat(1, n)

\* stormIdentifier after strip(): number, number, basin letter.
SidChoices == {<<"0", "1", "L">>, <<"0", "1", "X">>, <<"0", "1">>}

RegularSid == <<"0", "1", "L">>

\* The choices left to the reader when `left` more irregular arrays may occur
\* in the run.
Opts(all, regular, left) == IF left > 0 THEN all ELSE {regular}

Cost(x, regular) == IF x = regular THEN 0 ELSE 1

\* ------------------------------------------------------------ the program
VARIABLES
    nFiles,          \* len(files) of fetch_ecmwf
    fileNo,          \* i of enumerate(files, 1); 0 before the first file
    pc,              \* "fetch", "timesteps", "members", "close", "done", "raised";
                     \* "check", "checked", "rechecked" for _check_variable on its own;
                     \* "hdf5", "writing", "restoring" for the persistence;
                     \* "cxml", "df" for read_cxml
    exc,             \* the exception that left fetch_ecmwf, "" for none
    data,            \* self.data, the trajectory collection
    dataAtCall,      \* self.data when the current read_one_bufr_tc (or write_hdf5)
                     \* was called
    log,             \* LOGGER records, <<file, kind, varname>>
    irregular,       \* irregular arrays the reader may still deliver
    n_ens, n_timestep, ens_type, sid,
    ind_timestep,    \* loop variable of the timestep loop
    timesteps_int, latitude, longitude, pressure, max_wind,
    significance, significanceWind,
    fieldsRead,      \* fields read by codes_get_array in the last timestep
    ind_ens,         \* i of the member loop
    rawVar,          \* var, the raw array handed to _check_variable on its own
    varname,         \* the varname handed with it
    checked,         \* what the successive _check_variable calls returned
    h5file,          \* the attributes in the file written by write_hdf5
    loaded,          \* tracks.data of the instance from_hdf5 returns
    df               \* the rows of the dataframe of _cxml_to_df

vars == <<nFiles, fileNo, pc, exc, data, dataAtCall, log, irregular,
          n_ens, n_timestep, ens_type, sid, ind_timestep, timesteps_int,
          latitude, longitude, pressure, max_wind, significance,
          significanceWind, fieldsRead, ind_ens, rawVar, varname, checked,
          h5file, loaded, df>>

\* The state of _check_variable called on its own.
cvVars == <<rawVar, varname, checked>>

\* The state of the persistence and of the CXML reader.
ioVars == <<h5file, loaded, df>>

msgVars == <<n_ens, n_timestep, ens_type, sid, ind_timestep, timesteps_int,
             latitude, longitude, pressure, max_wind, significance,
             significanceWind, fieldsRead, ind_ens>>

\* No value yet (None).
None == <<>>

\* Nothing was written, loaded or read from CXML.
NoIO == h5file = None /\ loaded = None /\ df = None

\* get_value_from_bufr_array: the ValueError of the length-1 case is built
\* but never raised; the other case returns the array itself.
GetValueFromBufrArray(var) ==
    IF Len(var) = 1
    THEN [raise |-> FALSE, val |-> <<var[1]>>]
    ELSE IF \E i \in 1..Len(var) : var[i] # MISSING_LONG
         THEN [raise |-> FALSE, val |-> var]
         ELSE [raise |-> TRUE, val |-> None]

\* `if value == code:` on a value of get_value_from_bufr_array: "true",
\* "false", or "raise" for an array of several elements (its truth value is
\* ambiguous).
IfEquals(val, code) ==
    IF Len(val) = 1
    THEN IF val[1] = code THEN "true" ELSE "false"
    ELSE "raise"

\* A varname is the field and the timestep ("Latitude at time 0"); NoName where
\* a log record names no variable.
NoName == <<"", 0>>

VarName(field, t) == <<field, t>>

\* A LOGGER record.
LogRecord(file, kind, name) == <<file, kind, name>>

\* Variants of _check_variable with one slip each.
CheckVariableKeepsSentinel(v, n, name) ==
    IF Len(v) = n
    THEN [raise |-> FALSE, excArgs |-> <<>>, warn |-> FALSE, warnArgs |-> <<>>,
          val |-> v]
    ELSE IF Len(v) = 1 /\ v[1] = MISSING_DOUBLE
    THEN [raise |-> FALSE, excArgs |-> <<>>, warn |-> FALSE, warnArgs |-> <<>>,
          val |-> Repeat(NaN, n)]
    ELSE IF Len(v) = 1 /\ v[1] # MISSING_DOUBLE
    THEN [raise |-> FALSE, excArgs |-> <<>>, warn |-> TRUE,
          warnArgs |-> <<name, n>>, val |-> Repeat(v[1], n)]
    ELSE [raise |-> TRUE, excArgs |-> <<>>, warn |-> FALSE, warnArgs |-> <<>>,
          val |-> None]

CheckVariableNoRepeat(v, n, name) ==
    IF Len(v) = n
    THEN [raise |-> FALSE, excArgs |-> <<>>, warn |-> FALSE, warnArgs |-> <<>>,
          val |-> [i \in 1..n |-> IF v[i] = MISSING_DOUBLE THEN NaN ELSE v[i]]]
    ELSE IF Len(v) = 1 /\ v[1] = MISSING_DOUBLE
    THEN [raise |-> FALSE, excArgs |-> <<>>, warn |-> FALSE, warnArgs |-> <<>>,
          val |-> <<NaN>>]
    ELSE IF Len(v) = 1 /\ v[1] # MISSING_DOUBLE
    THEN [raise |-> FALSE, excArgs |-> <<>>, warn |-> TRUE,
          warnArgs |-> <<name, n>>, val |-> Repeat(v[1], n)]
    ELSE [raise |-> TRUE, excArgs |-> <<>>, warn |-> FALSE, warnArgs |-> <<>>,
          val |-> None]

CheckVariableRejectsNaN(v, n, name) ==
    IF \E i \in 1..Len(v) : v[i] = NaN
    THEN [raise |-> TRUE, excArgs |-> <<>>, warn |-> FALSE, warnArgs |-> <<>>,
          val |-> None]
    ELSE IF Len(v) = n
    THEN [raise |-> FALSE, excArgs |-> <<>>, warn |-> FALSE, warnArgs |-> <<>>,
          val |-> [i \in 1..n |-> IF v[i] = MISSING_DOUBLE THEN NaN ELSE v[i]]]
    ELSE IF Len(v) = 1 /\ v[1] = MISSING_DOUBLE
    THEN [raise |-> FALSE, excArgs |-> <<>>, warn |-> FALSE, warnArgs |-> <<>>,
          val |-> Repeat(NaN, n)]
    ELSE IF Len(v) = 1 /\ v[1] # MISSING_DOUBLE
    THEN [raise |-> FALSE, excArgs |-> <<>>, warn |-> TRUE,
          warnArgs |-> <<name, n>>, val |-> Repeat(v[1], n)]
    ELSE [raise |-> TRUE, excArgs |-> <<>>, warn |-> FALSE, warnArgs |-> <<>>,
          val |-> None]

CheckVariableSilent(v, n, name) ==
    IF Len(v) = n
    THEN [raise |-> FALSE, excArgs |-> <<>>, warn |-> FALSE, warnArgs |-> <<>>,
          val |-> [i \in 1..n |-> IF v[i] = MISSING_DOUBLE THEN NaN ELSE v[i]]]
    ELSE IF Len(v) = 1 /\ v[1] = MISSING_DOUBLE
    THEN [raise |-> FALSE, excArgs |-> <<>>, warn |-> FALSE, warnArgs |-> <<>>,
          val |-> Repeat(NaN, n)]
    ELSE IF Len(v) = 1 /\ v[1] # MISSING_DOUBLE
    THEN [raise |-> FALSE, excArgs |-> <<>>, warn |-> FALSE, warnArgs |-> <<>>,
          val |-> Repeat(v[1], n)]
    ELSE [raise |-> TRUE, excArgs |-> <<>>, warn |-> FALSE, warnArgs |-> <<>>,
          val |-> None]

\* _check_variable(var, n_ens, varname): [raise, excArgs, warn, warnArgs, val].
\* The warning of line 536 is given varname and n_ens; the ValueError of line
\* 541 is raised without arguments.
CheckVariable(v, n, name) ==
    IF Len(v) = n
    THEN [raise |-> FALSE, excArgs |-> <<>>, warn |-> FALSE, warnArgs |-> <<>>,
          val |-> [i \in 1..n |-> IF v[i] = MISSING_DOUBLE THEN NaN ELSE v[i]]]
    ELSE IF Len(v) = 1 /\ v[1] = MISSING_DOUBLE
    THEN [raise |-> FALSE, excArgs |-> <<>>, warn |-> FALSE, warnArgs |-> <<>>,
          val |-> Repeat(NaN, n)]
    ELSE IF Len(v) = 1 /\ v[1] # MISSING_DOUBLE
    THEN [raise |-> FALSE, excArgs |-> <<>>, warn |-> TRUE,
          warnArgs |-> <<name, n>>, val |-> Repeat(v[1], n)]
    ELSE [raise |-> TRUE, excArgs |-> <<>>, warn |-> FALSE, warnArgs |-> <<>>,
          val |-> None]

Init ==
    /\ nFiles \in 1..MaxFiles
    /\ fileNo = 0
    /\ pc = "fetch"
    /\ exc = ""
    /\ data = <<>>
    /\ dataAtCall = <<>>
    /\ log = {}
    /\ irregular = MaxIrregular
    /\ n_ens = 0
    /\ n_timestep = 0
    /\ ens_type = None
    /\ sid = None
    /\ ind_timestep = 0
    /\ timesteps_int = None
    /\ latitude = None
    /\ longitude = None
    /\ pressure = None
    /\ max_wind = None
    /\ significance = None
    /\ significanceWind = None
    /\ fieldsRead = {}
    /\ ind_ens = 0
    /\ rawVar = None
    /\ varname = NoName
    /\ checked = <<>>
    /\ NoIO

\* The reader's deliveries for a list of array slots, each slot [all, regular],
\* with at most b irregular arrays among them.
RECURSIVE Deliveries(_, _)
Deliveries(slots, b) ==
    IF slots = <<>>
    THEN {<<>>}
    ELSE UNION {{<<x>> \o rest :
                   rest \in Deliveries(Tail(slots), b - Cost(x, Head(slots).regular))} :
                x \in Opts(Head(slots).all, Head(slots).regular, b)}

\* Number of irregular arrays in a delivery.
RECURSIVE Irregulars(_, _)
Irregulars(slots, d) ==
    IF slots = <<>>
    THEN 0
    ELSE Cost(Head(d), Head(slots).regular) + Irregulars(Tail(slots), Tail(d))

\* Arrays the decoder never inspects are taken regular: positions after the
\* first `used` ones.
Canonical(slots, d, used) ==
    \A k \in 1..Len(slots) : k > used => d[k] = slots[k].regular

DoubleSlot(f, n) == [all |-> DoubleArrays(f, n), regular |-> RegularDouble(f, n)]

\* ensembleForecastType, stormIdentifier and the four fields of the analysis
\* step (lines 278-286), in the order the decoder inspects them.
HeaderSlots(n) ==
    << DoubleSlot("lat", n), DoubleSlot("lon", n), DoubleSlot("pre", n),
       DoubleSlot("wnd", n),
       [all |-> EnsTypeArrays(n), regular |-> RegularEnsType(n)],
       [all |-> SidChoices, regular |-> RegularSid] >>

\* The deliveries of the head of a message, by member count and by the number
\* of irregular arrays still allowed.
HeaderDeliveries ==
    [n \in 1..MaxEns, b \in 0..MaxIrregular |-> Deliveries(HeaderSlots(n), b)]

\* Lines 289-292 and 334-337: the four _check_variable calls of timestep t, in
\* order; the first failure raises.  warn holds the varnames of the warnings
\* logged by the calls that were made.
CheckFour(lat, lon, pre, wnd, n, t) ==
    LET c == << CheckVariable(lat, n, VarName("Latitude", t)),
                CheckVariable(lon, n, VarName("Longitude", t)),
                CheckVariable(pre, n, VarName("Pressure", t)),
                CheckVariable(wnd, n, VarName("Maximum 10m wind", t)) >>
        bad == {k \in 1..4 : c[k].raise}
        first == IF bad = {} THEN 5 ELSE CHOOSE k \in bad : \A j \in bad : k <= j
    IN  [raise |-> bad # {},
         inspected |-> IF bad = {} THEN 4 ELSE first,
         warn |-> {c[k].warnArgs[1] : k \in {j \in 1..4 : j < first /\ c[j].warn}},
         val |-> [k \in 1..4 |-> c[k].val]]

\* The log after the warnings of the varnames in names.
LogWarnings(l, file, names) == l \cup {LogRecord(file, "broadcast", nm) : nm \in names}

\* np.repeat(ens_type, n_ens) when a single value is given (lines 279-280).
RepeatEnsType(et, n) == IF Len(et) = 1 THEN Repeat(et[1], n) ELSE et

\* Lines 296-299: one 0-dimensional array per member.
InitSeries(v, n) == [i \in 0..(n - 1) |-> <<v[i + 1]>>]

OnMissingTimePeriodUncaught == [pc |-> "raised", exc |-> "CodesInternalError"]

\* The except clause of lines 268-270 catches the error of codes_get_size and
\* returns None: no exception, and fetch_ecmwf is back at the head of its loop.
OnMissingTimePeriod == [pc |-> "fetch", exc |-> ""]

\* read_one_bufr_tc, lines 265-270: the message has no timePeriod; the
\* warning is logged and the call returns; fetch_ecmwf closes the file.
ReadNoTimePeriod ==
    /\ pc = "fetch"
    /\ fileNo < nFiles
    /\ irregular > 0
    /\ fileNo' = fileNo + 1
    /\ dataAtCall' = data
    /\ irregular' = irregular - 1
    /\ log' = log \cup {LogRecord(fileNo + 1, "no_timePeriod", NoName)}
    /\ pc' = OnMissingTimePeriod.pc
    /\ exc' = OnMissingTimePeriod.exc
    /\ n_ens' = 0
    /\ n_timestep' = 0
    /\ ens_type' = None
    /\ sid' = None
    /\ ind_timestep' = 0
    /\ timesteps_int' = None
    /\ latitude' = None
    /\ longitude' = None
    /\ pressure' = None
    /\ max_wind' = None
    /\ significance' = None
    /\ significanceWind' = None
    /\ fieldsRead' = {}
    /\ ind_ens' = 0
    /\ UNCHANGED <<cvVars, ioVars, nFiles, data>>

\* read_one_bufr_tc, lines 243-302: the head of the message and the analysis
\* step, up to the timestep loop.
ReadHeader ==
    /\ pc = "fetch"
    /\ fileNo < nFiles
    /\ \E n \in 1..MaxEns, nt \in 1..MaxSteps :
       \E d \in HeaderDeliveries[n, irregular] :
          LET c == CheckFour(d[1], d[2], d[3], d[4], n, 0)
          IN  /\ ~c.raise
              /\ fileNo' = fileNo + 1
              /\ dataAtCall' = data
              /\ irregular' = irregular - Irregulars(HeaderSlots(n), d)
              /\ log' = LogWarnings(log, fileNo + 1, c.warn)
              /\ n_ens' = n
              /\ n_timestep' = nt
              /\ ens_type' = RepeatEnsType(d[5], n)
              /\ sid' = d[6]
              /\ latitude' = InitSeries(c.val[1], n)
              /\ longitude' = InitSeries(c.val[2], n)
              /\ pressure' = InitSeries(c.val[3], n)
              /\ max_wind' = InitSeries(c.val[4], n)
              /\ timesteps_int' = [x \in 1..nt |-> <<0>>]
              /\ ind_timestep' = 1
              /\ pc' = IF nt > 1 THEN "timesteps" ELSE "members"
    /\ significance' = None
    /\ significanceWind' = None
    /\ fieldsRead' = {}
    /\ ind_ens' = 0
    /\ UNCHANGED <<cvVars, ioVars, nFiles, exc, data>>

\* read_one_bufr_tc, lines 289-292: a _check_variable of the analysis step
\* raises; nothing in fetch_ecmwf catches it.
ReadHeaderRaise ==
    /\ pc = "fetch"
    /\ fileNo < nFiles
    /\ \E n \in 1..MaxEns, nt \in 1..MaxSteps :
       \E d \in HeaderDeliveries[n, irregular] :
          LET c == CheckFour(d[1], d[2], d[3], d[4], n, 0)
          IN  /\ c.raise
              /\ Canonical(HeaderSlots(n), d, c.inspected)
              /\ fileNo' = fileNo + 1
              /\ dataAtCall' = data
              /\ irregular' = irregular - Irregulars(HeaderSlots(n), d)
              /\ log' = LogWarnings(log, fileNo + 1, c.warn)
              /\ n_ens' = n
              /\ n_timestep' = nt
              /\ ens_type' = RepeatEnsType(d[5], n)
              /\ sid' = d[6]
    /\ pc' = "raised"
    /\ exc' = "ValueError:_check_variable"
    /\ latitude' = None
    /\ longitude' = None
    /\ pressure' = None
    /\ max_wind' = None
    /\ timesteps_int' = None
    /\ ind_timestep' = 0
    /\ significance' = None
    /\ significanceWind' = None
    /\ fieldsRead' = {}
    /\ ind_ens' = 0
    /\ UNCHANGED <<cvVars, ioVars, nFiles, data>>

\* The arrays of timestep t (lines 308-329), in the order the decoder inspects
\* them: lead time, the two qualifiers, then latitude, longitude, pressure, wind.
TimestepSlots(t, n) ==
    << [all |-> LeadArrays(t), regular |-> RegularLead(t)],
       [all |-> SigArrays, regular |-> <<SIG_CENTRE>>],
       [all |-> SigArrays, regular |-> <<SIG_MAXWIND>>],
       DoubleSlot("lat", n), DoubleSlot("lon", n), DoubleSlot("pre", n),
       DoubleSlot("wnd", n) >>

\* The deliveries of timestep t, by member count and by the number of
\* irregular arrays still allowed.
TimestepDeliveries ==
    [t \in 1..MaxSteps, n \in 1..MaxEns, b \in 0..MaxIrregular |->
        Deliveries(TimestepSlots(t, n), b)]

ReadCentre == {"timePeriod", "significance"}
ReadWindSig == ReadCentre \cup {"latitude", "longitude", "pressure", "significanceWind"}
ReadAll == ReadWindSig \cup {"wind"}

\* Whether the qualifier of the position/pressure group lets the decoder go on
\* (line 316).
CentreTest(val) == IfEquals(val, SIG_CENTRE)

WindTestAsCentre(val) == IfEquals(val, SIG_CENTRE)

\* Whether the qualifier of the wind group lets the decoder go on (line 328).
WindTest(val) == IfEquals(val, SIG_MAXWIND)

\* One iteration of the timestep loop (lines 304-337) on the delivery d:
\* the exception it ends with ("" for none), how many arrays it inspected,
\* the fields it read, and the values it obtained.
DecodeTimestep(d, n, step) ==
    LET tv == GetValueFromBufrArray(d[1])
        sv == GetValueFromBufrArray(d[2])
        wv == GetValueFromBufrArray(d[3])
        c  == CheckFour(d[4], d[5], d[6], d[7], n, step)
        out(e, u, r, t, s, w) ==
            [exc |-> e, used |-> u, read |-> r, timestep |-> t,
             significance |-> s, significanceWind |-> w,
             warn |-> IF e \in {"", "ValueError:_check_variable"} THEN c.warn ELSE {},
             val |-> IF e = "" THEN c.val ELSE None]
    IN  IF tv.raise
        THEN out("ValueError:get_value_from_bufr_array", 1, {"timePeriod"},
                 None, None, None)
        ELSE IF sv.raise
        THEN out("ValueError:get_value_from_bufr_array", 2, ReadCentre,
                 tv.val, None, None)
        ELSE IF CentreTest(sv.val) = "raise"
        THEN out("ValueError:truth value of an array", 2, ReadCentre,
                 tv.val, sv.val, None)
        ELSE IF CentreTest(sv.val) = "false"
        THEN out("ValueError:unexpected meteorologicalAttributeSignificance", 2,
                 ReadCentre, tv.val, sv.val, None)
        ELSE IF wv.raise
        THEN out("ValueError:get_value_from_bufr_array", 3, ReadWindSig,
                 tv.val, sv.val, None)
        ELSE IF WindTest(wv.val) = "raise"
        THEN out("ValueError:truth value of an array", 3, ReadWindSig,
                 tv.val, sv.val, wv.val)
        ELSE IF WindTest(wv.val) = "false"
        THEN out("ValueError:unexpected meteorologicalAttributeSignificance", 3,
                 ReadWindSig, tv.val, sv.val, wv.val)
        ELSE IF c.raise
        THEN out("ValueError:_check_variable", 3 + c.inspected, ReadAll,
                 tv.val, sv.val, wv.val)
        ELSE out("", 7, ReadAll, tv.val, sv.val, wv.val)

AppendSeriesFirstMember(series, v, n) ==
    [i \in 0..(n - 1) |-> IF i = 0 THEN Append(series[i], v[i + 1]) ELSE series[i]]

\* Lines 340-344: np.append of the timestep's value to every member's series.
AppendSeries(series, v, n) == [i \in 0..(n - 1) |-> Append(series[i], v[i + 1])]

\* timesteps_int[ind_timestep] = value (line 309).
SetTimestep(ts, t, v) == IF v = None THEN ts ELSE [ts EXCEPT ![t + 1] = v]

\* One iteration of the timestep loop that completes.
Timestep ==
    /\ pc = "timesteps"
    /\ \E d \in TimestepDeliveries[ind_timestep, n_ens, irregular] :
          LET o == DecodeTimestep(d, n_ens, ind_timestep)
          IN  /\ o.exc = ""
              /\ irregular' = irregular - Irregulars(TimestepSlots(ind_timestep, n_ens), d)
              /\ log' = LogWarnings(log, fileNo, o.warn)
              /\ timesteps_int' = SetTimestep(timesteps_int, ind_timestep, o.timestep)
              /\ significance' = o.significance
              /\ significanceWind' = o.significanceWind
              /\ fieldsRead' = o.read
              /\ latitude' = AppendSeries(latitude, o.val[1], n_ens)
              /\ longitude' = AppendSeries(longitude, o.val[2], n_ens)
              /\ pressure' = AppendSeries(pressure, o.val[3], n_ens)
              /\ max_wind' = AppendSeries(max_wind, o.val[4], n_ens)
    /\ ind_timestep' = ind_timestep + 1
    /\ pc' = IF ind_timestep + 1 < n_timestep THEN "timesteps" ELSE "members"
    /\ UNCHANGED <<cvVars, ioVars, nFiles, fileNo, exc, data, dataAtCall, n_ens, n_timestep,
                   ens_type, sid, ind_ens>>

\* One iteration of the timestep loop that raises: the exception leaves
\* read_one_bufr_tc and fetch_ecmwf.
TimestepRaise ==
    /\ pc = "timesteps"
    /\ \E d \in TimestepDeliveries[ind_timestep, n_ens, irregular] :
          LET o == DecodeTimestep(d, n_ens, ind_timestep)
          IN  /\ o.exc # ""
              /\ Canonical(TimestepSlots(ind_timestep, n_ens), d, o.used)
              /\ irregular' = irregular - Irregulars(TimestepSlots(ind_timestep, n_ens), d)
              /\ log' = LogWarnings(log, fileNo, o.warn)
              /\ timesteps_int' = SetTimestep(timesteps_int, ind_timestep, o.timestep)
              /\ significance' = o.significance
              /\ significanceWind' = o.significanceWind
              /\ fieldsRead' = o.read
              /\ exc' = o.exc
    /\ pc' = "raised"
    /\ UNCHANGED <<cvVars, ioVars, nFiles, fileNo, data, dataAtCall, n_ens, n_timestep,
                   ens_type, sid, ind_timestep, latitude, longitude, pressure,
                   max_wind, ind_ens>>

\* The message bundle of lines 347-360.
Msg ==
    [latitude |-> latitude, longitude |-> longitude, wind_10m |-> max_wind,
     pressure |-> pressure, timestamp |-> timesteps_int, storm_id |-> sid,
     ens_type |-> ens_type, ens_number |-> [i \in 1..n_ens |-> i]]

\* Number of dimensions of a series: np.array of a single element taken from
\* an array is 0-dimensional, np.append and np.array of a list give 1
\* dimension; squeeze() makes a list of one element 0-dimensional (line 452).
Ndim(a) == IF Len(a) = 1 THEN 0 ELSE 1

\* np.squeeze(pre) / 100 (line 464).
ToHectoPascal(x) == IF x = NaN THEN NaN ELSE x \div 100

\* The variables of the Dataset that are data variables at the time of
\* dropna (lines 462-466); lat and lon are coordinates (lines 469-470).
DataVars == {"max_sustained_wind", "central_pressure", "ts_int"}

\* xr.Dataset(...) raises ValueError when a ('time', array) variable is not
\* 1-dimensional or the lengths along 'time' differ (lines 461-484).
DatasetRaises(lat, lon, wnd, pre, ts) ==
    \/ Ndim(ts) # 1
    \/ \E a \in {lat, lon, wnd, pre} : Ndim(a) # 1 \/ Len(a) # Len(ts)

\* The time-indexed table, one row per timestep.
Table(lat, lon, wnd, pre, ts) ==
    [k \in 1..Len(ts) |->
        [time |-> ts[k][1], lat |-> lat[k], lon |-> lon[k],
         max_sustained_wind |-> wnd[k], central_pressure |-> ToHectoPascal(pre[k]),
         ts_int |-> ts[k][1]]]

\* track.dropna('time') (line 492): a row is kept when no data variable is NaN.
DropNa(rows) == SelectSeq(rows, LAMBDA r : \A v \in DataVars : r[v] # NaN)

\* track.ts_int - track.ts_int.shift({'time': 1}, fill_value=0) (lines 499-500).
TimeStep(rows) ==
    [k \in 1..Len(rows) |-> rows[k].ts_int - (IF k = 1 THEN 0 ELSE rows[k - 1].ts_int)]

\* Lines 492-500: the undefined rows are dropped, then the time_step column is
\* derived from the rows that remain.
WithTimeStep(rows) ==
    [k \in 1..Len(rows) |->
        [time |-> rows[k].time, lat |-> rows[k].lat, lon |-> rows[k].lon,
         max_sustained_wind |-> rows[k].max_sustained_wind,
         central_pressure |-> rows[k].central_pressure,
         ts_int |-> rows[k].ts_int, time_step |-> TimeStep(rows)[k]]]

TrackRowsDeltaFirst(table) == DropNa(WithTimeStep(table))

TrackRows(table) == WithTimeStep(DropNa(table))

IsEmptyNever(rows) == FALSE

\* track.sizes['time'] == 0 (line 494).
IsEmpty(rows) == Len(rows) = 0

Column(rows, v) == [k \in 1..Len(rows) |-> rows[k][v]]

FullLikeShort(time, x) == [k \in 1..(Len(time) - 1) |-> x]

\* np.full_like(track.time, x) (lines 504-512): one x per retained timestep.
FullLike(time, x) == [k \in 1..Len(time) |-> x]

\* The peak of a wind series (NaN entries are ignored; NaN when no entry is
\* defined).
Peak(winds) ==
    LET defined == {winds[k] : k \in 1..Len(winds)} \ {NaN}
    IN  IF defined = {} THEN NaN
        ELSE CHOOSE w \in defined : \A x \in defined : x <= w

\* set_category(max_sus_wind, wind_unit, saffir_scale): the index of the
\* highest class whose lower threshold is at most the peak wind, -1 below the
\* first threshold.  The category name CAT_NAMES[index] is kept as the index.
SetCategory(max_sus_wind, saffir_scale) ==
    Cardinality({j \in 1..Len(saffir_scale) : saffir_scale[j] <= Peak(max_sus_wind)}) - 1

\* _subset_to_track: [kind, track, exc, logs]; kind is "track", "none" (the
\* function returns None) or "raise".
SubsetToTrack(msg, index, id_no) ==
    LET lat == msg.latitude[index]
        lon == msg.longitude[index]
        wnd == msg.wind_10m[index]
        pre == msg.pressure[index]
        ts  == msg.timestamp
        rows == TrackRows(Table(lat, lon, wnd, pre, ts))
        res(k, t, e, l) == [kind |-> k, track |-> t, exc |-> e, logs |-> l]
    IN  IF \E k \in 1..Len(ts) : Len(ts[k]) # 1
        THEN res("raise", None, "ValueError:timestamp", {})
        ELSE IF index + 1 > Len(msg.ens_type)
        THEN res("raise", None, "IndexError:ens_type", {})
        ELSE IF DatasetRaises(lat, lon, wnd, pre, ts)
        THEN res("none", None, "", {"subset_error"})
        ELSE IF IsEmpty(rows)
        THEN res("none", None, "", {})
        ELSE IF Len(msg.storm_id) < 3
        THEN res("raise", None, "IndexError:storm_id", {})
        ELSE res("track",
                 [id_no |-> id_no * 100 + index,
                  ensemble_number |-> msg.ens_number[index + 1],
                  is_ensemble |-> msg.ens_type[index + 1] # 0,
                  sid |-> msg.storm_id,
                  time |-> Column(rows, "time"),
                  lat |-> Column(rows, "lat"),
                  lon |-> Column(rows, "lon"),
                  max_sustained_wind |-> Column(rows, "max_sustained_wind"),
                  central_pressure |-> Column(rows, "central_pressure"),
                  time_step |-> Column(rows, "time_step"),
                  radius_max_wind |-> FullLike(Column(rows, "time"), NaN),
                  environmental_pressure |->
                      FullLike(Column(rows, "time"), DEF_ENV_PRESSURE),
                  basin |-> FullLike(Column(rows, "time"), msg.storm_id[3]),
                  category |->
                      SetCategory(Column(rows, "max_sustained_wind"), SAFFIR_MS_CAT)],
                 "",
                 IF msg.storm_id[3] = "X" THEN {"undefined_basin"} ELSE {})

\* TCTracks.append (line 378).
AppendTrack(d, track) == Append(d, track)

LogAll(l, n, kinds) == l \cup {LogRecord(n, k, NoName) : k \in kinds}

AfterMemberNested(i, n) == IF i + 1 < n THEN "timesteps" ELSE "close"

\* After member i of the loop of lines 372-380: the next member, or the
\* return to fetch_ecmwf.
AfterMember(i, n) == IF i + 1 < n THEN "members" ELSE "close"

\* One iteration of the member loop whose track is appended.
MemberAppend ==
    /\ pc = "members"
    /\ LET r == SubsetToTrack(Msg, ind_ens, fileNo)
       IN  /\ r.kind = "track"
           /\ data' = AppendTrack(data, r.track)
           /\ log' = LogAll(log, fileNo, r.logs)
    /\ ind_ens' = ind_ens + 1
    /\ pc' = AfterMember(ind_ens, n_ens)
    /\ UNCHANGED <<cvVars, ioVars, nFiles, fileNo, exc, dataAtCall, irregular, n_ens, n_timestep,
                   ens_type, sid, ind_timestep, timesteps_int, latitude,
                   longitude, pressure, max_wind, significance,
                   significanceWind, fieldsRead>>

\* One iteration of the member loop for which _subset_to_track returns None.
MemberSkip ==
    /\ pc = "members"
    /\ LET r == SubsetToTrack(Msg, ind_ens, fileNo)
       IN  /\ r.kind = "none"
           /\ log' = LogAll(log, fileNo, r.logs \cup {"empty_track"})
    /\ ind_ens' = ind_ens + 1
    /\ pc' = AfterMember(ind_ens, n_ens)
    /\ UNCHANGED <<cvVars, ioVars, nFiles, fileNo, exc, data, dataAtCall, irregular, n_ens,
                   n_timestep, ens_type, sid, ind_timestep, timesteps_int,
                   latitude, longitude, pressure, max_wind, significance,
                   significanceWind, fieldsRead>>

\* One iteration of the member loop in which _subset_to_track raises outside
\* its try block: the exception leaves read_one_bufr_tc and fetch_ecmwf.
MemberRaise ==
    /\ pc = "members"
    /\ LET r == SubsetToTrack(Msg, ind_ens, fileNo)
       IN  /\ r.kind = "raise"
           /\ exc' = r.exc
    /\ pc' = "raised"
    /\ UNCHANGED <<cvVars, ioVars, nFiles, fileNo, data, dataAtCall, log, irregular, msgVars>>

\* read_one_bufr_tc has returned: file.close() (line 164) and back to the head
\* of the loop of fetch_ecmwf; the locals of the call are gone.
CloseFile ==
    /\ pc = "close"
    /\ pc' = "fetch"
    /\ n_ens' = 0
    /\ n_timestep' = 0
    /\ ens_type' = None
    /\ sid' = None
    /\ ind_timestep' = 0
    /\ timesteps_int' = None
    /\ latitude' = None
    /\ longitude' = None
    /\ pressure' = None
    /\ max_wind' = None
    /\ significance' = None
    /\ significanceWind' = None
    /\ fieldsRead' = {}
    /\ ind_ens' = 0
    /\ UNCHANGED <<cvVars, ioVars, nFiles, fileNo, exc, data, dataAtCall, log, irregular>>

\* fetch_ecmwf: the loop is exhausted.
FetchDone ==
    /\ pc = "fetch"
    /\ fileNo = nFiles
    /\ pc' = "done"
    /\ UNCHANGED <<cvVars, ioVars, nFiles, fileNo, exc, data, dataAtCall, log, irregular, msgVars>>

\* ------------------------------------------- the member loop on any bundle
\* The values get_value_from_bufr_array can leave in timesteps_int[t].
BundleLeads(t) ==
    {GetValueFromBufrArray(a).val : a \in {b \in LeadArrays(t) : ~GetValueFromBufrArray(b).raise}}

\* The cells of the four series of a bundle are numbered member by member,
\* field by field (latitude, longitude, pressure, wind), timestep by timestep.
BundleFields == <<"lat", "lon", "pre", "wnd">>

CellNo(i, fi, k, nt) == (i * 4 + (fi - 1)) * nt + k

RECURSIVE SubsetsUpTo(_, _)
SubsetsUpTo(S, k) ==
    IF k = 0
    THEN {{}}
    ELSE LET prev == SubsetsUpTo(S, k - 1)
         IN  prev \cup {s \cup {p} : s \in prev, p \in S}

\* The sets of undefined (NaN) cells of a bundle.
UndefinedCells == [c \in 0..(MaxEns * 4 * MaxRows) |-> SubsetsUpTo(1..c, MaxUndefined)]

\* The rest of a bundle: the lead times of the timesteps 1..nt-1, the ensemble
\* types (after the np.repeat of line 280), the storm identifier.
BundleSlots(n, nt) ==
    [t \in 1..(nt - 1) |-> [all |-> BundleLeads(t), regular |-> RegularLead(t)]]
    \o << [all |-> {RepeatEnsType(a, n) : a \in EnsTypeArrays(n)},
           regular |-> RegularEnsType(n)],
          [all |-> SidChoices, regular |-> RegularSid] >>

BundleRest ==
    [n \in 1..MaxEns, nt \in 1..MaxRows, b \in 0..MaxUndefined |->
        Deliveries(BundleSlots(n, nt), b)]

\* The series of field number fi (1..4) with the cells of q undefined.
BundleSeries(q, fi, n, nt) ==
    [i \in 0..(n - 1) |->
        [k \in 1..nt |->
            IF CellNo(i, fi, k, nt) \in q THEN NaN ELSE FieldValue(BundleFields[fi])]]

\* read_one_bufr_tc at the head of the member loop (line 372), the message
\* decoded into any bundle with at most MaxUndefined departures from the
\* regular one.
InitTrack ==
    /\ nFiles = 1
    /\ fileNo = 1
    /\ pc = "members"
    /\ exc = ""
    /\ data = <<>>
    /\ dataAtCall = <<>>
    /\ log = {}
    /\ irregular = 0
    /\ n_ens \in 1..MaxEns
    /\ n_timestep \in 1..MaxRows
    /\ \E q \in UndefinedCells[n_ens * 4 * n_timestep] :
       \E d \in BundleRest[n_ens, n_timestep, MaxUndefined - Cardinality(q)] :
          /\ latitude = BundleSeries(q, 1, n_ens, n_timestep)
          /\ longitude = BundleSeries(q, 2, n_ens, n_timestep)
          /\ pressure = BundleSeries(q, 3, n_ens, n_timestep)
          /\ max_wind = BundleSeries(q, 4, n_ens, n_timestep)
          /\ timesteps_int = [k \in 1..n_timestep |-> IF k = 1 THEN <<0>> ELSE d[k - 1]]
          /\ ens_type = d[n_timestep]
          /\ sid = d[n_timestep + 1]
    /\ ind_timestep = n_timestep
    /\ significance = None
    /\ significanceWind = None
    /\ fieldsRead = {}
    /\ ind_ens = 0
    /\ rawVar = None
    /\ varname = NoName
    /\ checked = <<>>
    /\ NoIO

NextTrack ==
    \/ MemberAppend
    \/ MemberSkip
    \/ MemberRaise
    \/ CloseFile
    \/ FetchDone

SpecTrack == InitTrack /\ [][NextTrack]_vars

Next ==
    \/ ReadNoTimePeriod
    \/ ReadHeader
    \/ ReadHeaderRaise
    \/ Timestep
    \/ TimestepRaise
    \/ MemberAppend
    \/ MemberSkip
    \/ MemberRaise
    \/ CloseFile
    \/ FetchDone

Spec == Init /\ [][Next]_vars
\* ------------------------------------------ the member loop, many members
\* read_one_bufr_tc at the head of the member loop (line 372) of a message
\* of up to MaxMembers members and two timesteps.  The members are regular;
\* in a message of at most MaxEns members the wind of member 0 may be missing
\* and the storm identifier may be any of SidChoices.
ManySeries(f, n, missing0) ==
    [i \in 0..(n - 1) |->
        IF missing0 /\ i = 0 THEN <<NaN, NaN>> ELSE <<FieldValue(f), FieldValue(f)>>]

InitMembers ==
    /\ nFiles = 1
    /\ fileNo = 1
    /\ pc = "members"
    /\ exc = ""
    /\ data = <<>>
    /\ dataAtCall = <<>>
    /\ log = {}
    /\ irregular = 0
    /\ n_ens \in 1..MaxMembers
    /\ n_timestep = 2
    /\ ens_type = RegularEnsType(n_ens)
    /\ sid \in (IF n_ens <= MaxEns THEN SidChoices ELSE {RegularSid})
    /\ ind_timestep = 2
    /\ timesteps_int = <<<<0>>, RegularLead(1)>>
    /\ latitude = ManySeries("lat", n_ens, FALSE)
    /\ longitude = ManySeries("lon", n_ens, FALSE)
    /\ pressure = ManySeries("pre", n_ens, FALSE)
    /\ \E missing0 \in (IF n_ens <= MaxEns THEN BOOLEAN ELSE {FALSE}) :
          max_wind = ManySeries("wnd", n_ens, missing0)
    /\ significance = None
    /\ significanceWind = None
    /\ fieldsRead = {}
    /\ ind_ens = 0
    /\ rawVar = None
    /\ varname = NoName
    /\ checked = <<>>
    /\ NoIO

SpecMembers == InitMembers /\ [][NextTrack]_vars

\* ------------------------------------------- several messages, many members
\* fetch_ecmwf (lines 153-164) over messages of two timesteps whose arrays
\* have the expected lengths and qualifiers, so that _check_variable neither
\* warns nor raises: read_one_bufr_tc from its start to the head of the member loop (lines
\* 243-371) as one step.  The first message has up to MaxMembers members, the
\* later ones up to MaxEns; in a message of at most MaxEns members the wind
\* of member 0 may be missing and the storm identifier may be any of
\* SidChoices.
ReadRegular ==
    /\ pc = "fetch"
    /\ fileNo < nFiles
    /\ fileNo' = fileNo + 1
    /\ dataAtCall' = data
    /\ \E n \in 1..(IF fileNo = 0 THEN MaxMembers ELSE MaxEns) :
          /\ n_ens' = n
          /\ ens_type' = RegularEnsType(n)
          /\ sid' \in (IF n <= MaxEns THEN SidChoices ELSE {RegularSid})
          /\ latitude' = ManySeries("lat", n, FALSE)
          /\ longitude' = ManySeries("lon", n, FALSE)
          /\ pressure' = ManySeries("pre", n, FALSE)
          /\ \E missing0 \in (IF n <= MaxEns THEN BOOLEAN ELSE {FALSE}) :
                max_wind' = ManySeries("wnd", n, missing0)
    /\ n_timestep' = 2
    /\ ind_timestep' = 2
    /\ timesteps_int' = <<<<0>>, RegularLead(1)>>
    /\ significance' = <<SIG_CENTRE>>
    /\ significanceWind' = <<SIG_MAXWIND>>
    /\ fieldsRead' = ReadAll
    /\ ind_ens' = 0
    /\ pc' = "members"
    /\ UNCHANGED <<cvVars, ioVars, nFiles, exc, data, log, irregular>>

NextMessages ==
    \/ ReadRegular
    \/ MemberAppend
    \/ MemberSkip
    \/ MemberRaise
    \/ CloseFile
    \/ FetchDone

SpecMessages == Init /\ [][NextMessages]_vars

\* ------------------------------------------ the member loop, any wind series
\* The winds of a message: below, at and above the first thresholds, or missing.
WindValues == {NaN, 17, 18, 32, 33, 71}

\* read_one_bufr_tc at the head of the member loop (line 372) of a message of
\* one member and MaxRows timesteps with any winds of WindValues, pressure
\* defined or missing at each step, and any storm identifier of SidChoices.
InitCategory ==
    /\ nFiles = 1
    /\ fileNo = 1
    /\ pc = "members"
    /\ exc = ""
    /\ data = <<>>
    /\ dataAtCall = <<>>
    /\ log = {}
    /\ irregular = 0
    /\ n_ens = 1
    /\ n_timestep = MaxRows
    /\ ens_type = RegularEnsType(1)
    /\ sid \in SidChoices
    /\ ind_timestep = MaxRows
    /\ timesteps_int = [k \in 1..MaxRows |-> IF k = 1 THEN <<0>> ELSE RegularLead(k - 1)]
    /\ latitude = [i \in {0} |-> Repeat(FieldValue("lat"), MaxRows)]
    /\ longitude = [i \in {0} |-> Repeat(FieldValue("lon"), MaxRows)]
    /\ pressure \in [{0} -> [1..MaxRows -> {FieldValue("pre"), NaN}]]
    /\ max_wind \in [{0} -> [1..MaxRows -> WindValues]]
    /\ significance = None
    /\ significanceWind = None
    /\ fieldsRead = {}
    /\ ind_ens = 0
    /\ rawVar = None
    /\ varname = NoName
    /\ checked = <<>>
    /\ NoIO

SpecCategory == InitCategory /\ [][NextTrack]_vars

\* ------------------------------------------------------------ persistence
\* Attribute values carry their type: <<"bool", 0 or 1>>, <<"int", i>>,
\* <<"datetime64", hour>>, and <<"str", d1, d2>> for the text of a timestamp,
\* here the two decimal digits of its hour.
BoolValues == {<<"bool", 0>>, <<"bool", 1>>}

Hours == {0, 9, 12, 23}

\* int(x) of a bool or an int.
IntOf(x) == <<"int", x[2]>>

\* bool(x) of an int or a bool.
BoolOf(x) == <<"bool", IF x[2] = 0 THEN 0 ELSE 1>>

\* str(x) of a datetime64.
StrOf(x) == <<"str", x[2] \div 10, x[2] % 10>>

\* np.datetime64(s) of the text of a timestamp.
Datetime64(s) == <<"datetime64", s[2] * 10 + s[3]>>

\* write_hdf5, lines 394-396: the attributes in the form that is written.
ForWriting(d) ==
    [p \in 1..Len(d) |->
        [is_ensemble |-> IntOf(d[p].is_ensemble),
         run_datetime |-> StrOf(d[p].run_datetime)]]

\* write_hdf5, lines 401-405: the change of type is undone.
Restored(d) ==
    [p \in 1..Len(d) |->
        [is_ensemble |-> BoolOf(d[p].is_ensemble),
         run_datetime |-> Datetime64(d[p].run_datetime)]]

RestoreAfterSuccess(outcome, d) == IF outcome = "ok" THEN Restored(d) ELSE d

\* try ... finally (lines 397-405): the attributes are restored whether the
\* writer of the base class returned or raised.
RestoreAfter(outcome, d) == Restored(d)

\* TCTracks.write_hdf5 and TCTracks.from_hdf5 of the base class: the
\* attributes of every track are stored, and read back, as they are, in order.
StoreHdf5(d) == d

LoadHdf5(f) == f

FromStoredAsRead(a) ==
    [is_ensemble |-> a.is_ensemble, run_datetime |-> Datetime64(a.run_datetime)]

\* from_hdf5, lines 422-426: the attributes of one track that was read.
FromStored(a) ==
    [is_ensemble |-> BoolOf(a.is_ensemble), run_datetime |-> Datetime64(a.run_datetime)]

\* An instance holding any collection of at most MaxTracks trajectories.
InitHdf5 ==
    /\ nFiles = 1
    /\ fileNo = 1
    /\ pc = "hdf5"
    /\ exc = ""
    /\ data \in UNION {[1..k -> [is_ensemble : BoolValues,
                                 run_datetime : {<<"datetime64", h>> : h \in Hours}]] :
                       k \in 0..MaxTracks}
    /\ dataAtCall = data
    /\ log = {}
    /\ irregular = 0
    /\ n_ens = 0
    /\ n_timestep = 0
    /\ ens_type = None
    /\ sid = None
    /\ ind_timestep = 0
    /\ timesteps_int = None
    /\ latitude = None
    /\ longitude = None
    /\ pressure = None
    /\ max_wind = None
    /\ significance = None
    /\ significanceWind = None
    /\ fieldsRead = {}
    /\ ind_ens = 0
    /\ rawVar = None
    /\ varname = NoName
    /\ checked = <<>>
    /\ NoIO

\* write_hdf5, lines 394-396: the attributes are changed in place.
WriteConvert ==
    /\ pc = "hdf5"
    /\ pc' = "writing"
    /\ dataAtCall' = data
    /\ data' = ForWriting(data)
    /\ UNCHANGED <<cvVars, ioVars, nFiles, fileNo, exc, log, irregular, msgVars>>

\* write_hdf5, line 398: the writer of the base class returns or raises.
WriteSuper ==
    /\ pc = "writing"
    /\ pc' = "restoring"
    /\ \E outcome \in {"ok", "raise"} :
          /\ exc' = IF outcome = "ok" THEN "" ELSE "OSError:write_hdf5"
          /\ h5file' = IF outcome = "ok" THEN StoreHdf5(data) ELSE h5file
    /\ UNCHANGED <<cvVars, loaded, df, nFiles, fileNo, data, dataAtCall, log, irregular,
                   msgVars>>

\* write_hdf5, lines 399-405: the finally clause; then the call returns, or
\* the exception of the writer goes on to the caller.
WriteFinally ==
    /\ pc = "restoring"
    /\ data' = RestoreAfter(IF exc = "" THEN "ok" ELSE "raise", data)
    /\ pc' = IF exc = "" THEN "hdf5" ELSE "raised"
    /\ UNCHANGED <<cvVars, ioVars, nFiles, fileNo, exc, dataAtCall, log, irregular,
                   msgVars>>

\* from_hdf5, lines 419-427, on the file written last.
FromHdf5 ==
    /\ pc = "hdf5"
    /\ h5file # None
    /\ loaded' = [p \in 1..Len(LoadHdf5(h5file)) |-> FromStored(LoadHdf5(h5file)[p])]
    /\ UNCHANGED <<cvVars, h5file, df, nFiles, fileNo, pc, exc, data, dataAtCall, log,
                   irregular, msgVars>>

NextHdf5 ==
    \/ WriteConvert
    \/ WriteSuper
    \/ WriteFinally
    \/ FromHdf5

SpecHdf5 == InitHdf5 /\ [][NextHdf5]_vars

\* -------------------------------------------------------------- read_cxml
\* BASIN_ENV_PRESSURE_CXML (lines 92-98) for two of its basins.
BASIN_ENV_PRESSURE_CXML ==
    [b \in {"North Atlantic", "Northwest Pacific"} |->
        IF b = "North Atlantic" THEN 1010 ELSE 1005]

\* The rows pd.read_csv gives for a CXML file (lines 574-585): row k has
\* validTime k; the basin, the member (NaN for the null member of the
\* deterministic run), the latitude and the last closed isobar vary.
CxmlRow(k, basin, member, lat, isobar) ==
    [disturbance_no |-> 1, baseTime |-> 0, basin |-> basin, cycloneNumber |-> 7,
     member |-> member, validTime |-> k, hour |-> 6 * (k - 1),
     latitude |-> lat, longitude |-> FieldValue("lon"),
     minimumPressure |-> 990, maximumWind |-> FieldValue("wnd"),
     maximumWindRadius |-> NaN, lastClosedIsobar |-> isobar]

CxmlRows(k) ==
    {CxmlRow(k, b, m, lat, iso) :
        b \in DOMAIN BASIN_ENV_PRESSURE_CXML, m \in {NaN, 1, 2},
        lat \in {FieldValue("lat"), NaN}, iso \in {1008, NaN}}

CxmlFiles ==
    UNION {{f \in [1..n -> UNION {CxmlRows(k) : k \in 1..n}] :
               \A k \in 1..n : f[k].validTime = k} : n \in 1..MaxCxmlRows}

\* all_storms_df.dropna(subset=["validTime", "latitude", "longitude"]) (lines 587-589).
DropNaRows(rows) ==
    SelectSeq(rows, LAMBDA r : r.validTime # NaN /\ r.latitude # NaN /\ r.longitude # NaN)

\* fillna of lastClosedIsobar with the default of the row's basin (lines 591-604).
FillNa(rows) ==
    [k \in 1..Len(rows) |->
        IF rows[k].lastClosedIsobar = NaN
        THEN [rows[k] EXCEPT !.lastClosedIsobar = BASIN_ENV_PRESSURE_CXML[rows[k].basin]]
        ELSE rows[k]]

\* _cxml_to_df.
CxmlToDf(rows) == FillNa(DropNaRows(rows))

\* The key of df.groupby (lines 547-549).
GroupKey(r) == <<r.disturbance_no, r.baseTime, r.basin, r.cycloneNumber, r.member>>

RECURSIVE FirstSeen(_, _)
FirstSeen(rows, seen) ==
    IF rows = <<>>
    THEN <<>>
    ELSE IF GroupKey(Head(rows)) \in seen
         THEN FirstSeen(Tail(rows), seen)
         ELSE <<GroupKey(Head(rows))>> \o FirstSeen(Tail(rows), seen \cup {GroupKey(Head(rows))})

GroupKeysDropNa(rows) == FirstSeen(SelectSeq(rows, LAMBDA r : r.member # NaN), {})

\* groupby(..., sort=False, dropna=False): the distinct keys in the order they
\* are first seen, a null member being a key value like any other.
GroupKeys(rows) == FirstSeen(rows, {})

SubDf(rows, key) == SelectSeq(rows, LAMBDA r : GroupKey(r) = key)

CxmlColumn(sub, f) == [k \in 1..Len(sub) |-> sub[k][f]]

\* _fcastdf_to_ds (lines 608-641).
FcastdfToDs(sub) ==
    [max_sustained_wind |-> CxmlColumn(sub, "maximumWind"),
     central_pressure |-> CxmlColumn(sub, "minimumPressure"),
     hour |-> CxmlColumn(sub, "hour"),
     radius_max_wind |-> CxmlColumn(sub, "maximumWindRadius"),
     environmental_pressure |-> CxmlColumn(sub, "minimumPressure"),
     basin |-> CxmlColumn(sub, "basin"),
     time |-> CxmlColumn(sub, "validTime"),
     lat |-> CxmlColumn(sub, "latitude"),
     lon |-> CxmlColumn(sub, "longitude"),
     id_no |-> sub[1].cycloneNumber,
     ensemble_number |-> sub[1].member,
     is_ensemble |-> sub[1].member # NaN,
     run_datetime |-> sub[1].baseTime]

\* read_cxml, lines 552-553: one Dataset per group.
GroupTracks(rows) ==
    [g \in 1..Len(GroupKeys(rows)) |-> FcastdfToDs(SubDf(rows, GroupKeys(rows)[g]))]

\* read_cxml about to be called on any CXML file of at most MaxCxmlRows rows.
InitCxml ==
    /\ nFiles = 1
    /\ fileNo = 1
    /\ pc = "cxml"
    /\ exc = ""
    /\ data = <<>>
    /\ dataAtCall = <<>>
    /\ log = {}
    /\ irregular = 0
    /\ n_ens = 0
    /\ n_timestep = 0
    /\ ens_type = None
    /\ sid = None
    /\ ind_timestep = 0
    /\ timesteps_int = None
    /\ latitude = None
    /\ longitude = None
    /\ pressure = None
    /\ max_wind = None
    /\ significance = None
    /\ significanceWind = None
    /\ fieldsRead = {}
    /\ ind_ens = 0
    /\ rawVar = None
    /\ varname = NoName
    /\ checked = <<>>
    /\ h5file = None
    /\ loaded = None
    /\ df \in CxmlFiles

\* read_cxml, line 546: _cxml_to_df.
ReadCxmlDf ==
    /\ pc = "cxml"
    /\ pc' = "df"
    /\ df' = CxmlToDf(df)
    /\ UNCHANGED <<cvVars, h5file, loaded, nFiles, fileNo, exc, data, dataAtCall, log,
                   irregular, msgVars>>

\* read_cxml, lines 547-555: the groups become the data of the new instance.
ReadCxmlGroups ==
    /\ pc = "df"
    /\ pc' = "done"
    /\ data' = GroupTracks(df)
    /\ UNCHANGED <<cvVars, ioVars, nFiles, fileNo, exc, dataAtCall, log, irregular,
                   msgVars>>

NextCxml ==
    \/ ReadCxmlDf
    \/ ReadCxmlGroups

SpecCxml == InitCxml /\ [][NextCxml]_vars

\* --------------------------------------------- _check_variable on its own
\* The raw arrays handed to _check_variable: any array of at most n entries,
\* each a defined value, the missing sentinel or NaN.
RawArrays(n) == UNION {[1..k -> {FieldValue("lat"), MISSING_DOUBLE, NaN}] : k \in 0..n}

VarNames == {VarName("Latitude", 0), VarName("Maximum 10m wind", 1)}

\* A caller about to call _check_variable(var, n_ens, varname).
InitCheck ==
    /\ nFiles = 1
    /\ fileNo = 1
    /\ pc = "check"
    /\ exc = ""
    /\ data = <<>>
    /\ dataAtCall = <<>>
    /\ log = {}
    /\ irregular = 0
    /\ n_ens \in 1..MaxCount
    /\ n_timestep = 0
    /\ ens_type = None
    /\ sid = None
    /\ ind_timestep = 0
    /\ timesteps_int = None
    /\ latitude = None
    /\ longitude = None
    /\ pressure = None
    /\ max_wind = None
    /\ significance = None
    /\ significanceWind = None
    /\ fieldsRead = {}
    /\ ind_ens = 0
    /\ rawVar \in RawArrays(MaxCount + 1)
    /\ varname \in VarNames
    /\ checked = <<>>
    /\ NoIO

\* The call _check_variable(r, n_ens, varname) of a caller at `at`: the result
\* is recorded, the warning logged, a ValueError propagates.
CallCheckVariable(at, r, to) ==
    /\ pc = at
    /\ LET c == CheckVariable(r, n_ens, varname)
       IN  /\ checked' = Append(checked, c)
           /\ log' = IF c.warn THEN LogWarnings(log, fileNo, {c.warnArgs[1]}) ELSE log
           /\ pc' = IF c.raise THEN "raised" ELSE to
           /\ exc' = IF c.raise THEN "ValueError:_check_variable" ELSE ""
    /\ UNCHANGED <<ioVars, nFiles, fileNo, data, dataAtCall, irregular, msgVars, rawVar,
                   varname>>

\* _check_variable on the raw array.
CheckRaw == CallCheckVariable("check", rawVar, "checked")

\* _check_variable on the array the first call returned.
CheckAgain == CallCheckVariable("checked", checked[1].val, "rechecked")

NextCheck ==
    \/ CheckRaw
    \/ CheckAgain

SpecCheck == InitCheck /\ [][NextCheck]_vars
\* ------------------------------------------------------------------ claims
StructuralErrors ==
    {"ValueError:unexpected meteorologicalAttributeSignificance",
     "ValueError:_check_variable"}

SubsetErrors == {"ValueError:timestamp", "IndexError:ens_type", "IndexError:storm_id"}

\* The bundle of the current message is complete and in the state.
InMemberLoop == pc \in {"members", "close"}

\* Positions in the collection of the trajectories appended by the current call.
CurrentPositions == (Len(dataAtCall) + 1)..Len(data)

HasTrack(i) == \E p \in CurrentPositions : data[p].id_no = fileNo * 100 + i

TrackOfMember(i) == data[CHOOSE p \in CurrentPositions : data[p].id_no = fileNo * 100 + i]

\* The timesteps of member i at which the four fields are all defined.
FullyDefined(i) ==
    {k \in 1..n_timestep :
        /\ latitude[i][k] # NaN
        /\ longitude[i][k] # NaN
        /\ max_wind[i][k] # NaN
        /\ pressure[i][k] # NaN}

\* All rows of member i lack wind or pressure.
AllRowsDropped(i) ==
    \A k \in 1..n_timestep : max_wind[i][k] = NaN \/ pressure[i][k] = NaN

\* C1: when decoding of one message fails with a structural error, the
\* message contributes no trajectory and every other message of the run,
\* also the ones after it, is still decoded.
C1_OtherMessagesStillDecoded ==
    (pc = "raised" /\ exc \in StructuralErrors)
        => (data = dataAtCall /\ fileNo = nFiles)

\* C2: if read_one_bufr_tc fails with a structural error, the collection is
\* exactly what it was when the call began.
C2_FailedDecodeLeavesCollection ==
    (pc = "raised" /\ exc \in StructuralErrors) => data = dataAtCall

C2_Witness ==
    /\ pc = "raised"
    /\ exc \in StructuralErrors
    /\ ind_timestep >= 1
    /\ Len(data) > 0

\* C3: the trajectory of a member holds exactly the timesteps at which
\* latitude, longitude, wind and pressure are all defined.
C3_RetainsExactlyDefinedRows ==
    InMemberLoop =>
        \A i \in 0..(ind_ens - 1) :
            HasTrack(i) =>
                LET tr == TrackOfMember(i)
                IN  /\ Len(tr.time) = Cardinality(FullyDefined(i))
                    /\ \A k \in 1..Len(tr.time) :
                          /\ tr.lat[k] # NaN
                          /\ tr.lon[k] # NaN
                          /\ tr.max_sustained_wind[k] # NaN
                          /\ tr.central_pressure[k] # NaN

\* C4: every retained timestep of every trajectory of the collection has a
\* defined latitude and a defined longitude.
C4_PositionsDefined ==
    \A p \in 1..Len(data) :
        \A k \in 1..Len(data[p].time) :
            data[p].lat[k] # NaN /\ data[p].lon[k] # NaN

\* C5: the time_step of the first retained timestep of every trajectory is
\* zero, also when the analysis step was dropped.
C5_FirstDeltaZero ==
    \A p \in 1..Len(data) : data[p].time_step[1] = 0

\* C6: after the first retained timestep, time_step is the lead time of the
\* step minus the lead time of the previous retained step.
C6_DeltasOfRetainedSteps ==
    \A p \in 1..Len(data) :
        \A k \in 2..Len(data[p].time) :
            data[p].time_step[k] = data[p].time[k] - data[p].time[k - 1]

C6_Witness ==
    /\ n_timestep = 3
    /\ \E p \in 1..Len(data) : data[p].time = <<0, 12>> /\ data[p].time_step = <<0, 12>>

\* C7: a failure while assembling one member skips only that member: the
\* member loop goes through every member of the message and read_one_bufr_tc
\* returns.
C7_OnlyFailingMemberSkipped ==
    (pc = "close" \/ (pc = "raised" /\ exc \in SubsetErrors))
        => (pc = "close" /\ ind_ens = n_ens)

\* C8: every trajectory of the collection has at least one timestep, and a
\* member all of whose rows are dropped has no trajectory.
C8_NoEmptyTrajectory ==
    /\ \A p \in 1..Len(data) : Len(data[p].time) >= 1
    /\ InMemberLoop =>
          \A i \in 0..(ind_ens - 1) : AllRowsDropped(i) => ~HasTrack(i)

C8_Witness ==
    /\ InMemberLoop
    /\ n_timestep >= 2
    /\ \E i, j \in 0..(ind_ens - 1) : i < j /\ AllRowsDropped(i) /\ HasTrack(j)

\* C9: decoding goes past a timestep only with the position qualifier equal
\* to the storm-centre code and the wind qualifier equal to the maximum-wind
\* code; no position or pressure is read under another position qualifier, no
\* wind under another wind qualifier, and the decoding fails, the message
\* yielding no trajectory.
C9_QualifiersGuardDecoding ==
    fieldsRead # {} =>
        /\ (fieldsRead \cap {"latitude", "longitude", "pressure"} # {})
              => significance = <<SIG_CENTRE>>
        /\ ("wind" \in fieldsRead) => significanceWind = <<SIG_MAXWIND>>
        /\ (significance # <<SIG_CENTRE>> \/ significanceWind # <<SIG_MAXWIND>>)
              => (pc = "raised" /\ data = dataAtCall)

C9_Witness ==
    /\ pc = "raised"
    /\ significance = <<SIG_CENTRE>>
    /\ significanceWind = <<SIG_CENTRE>>
    /\ "wind" \notin fieldsRead
    /\ "latitude" \in fieldsRead

\* C10: a message without the timePeriod field is skipped with a warning: no
\* exception, the collection as it was, and fetch_ecmwf goes on with the
\* remaining messages.
C10_MissingLeadTimeSkipsMessage ==
    \A k \in 1..fileNo :
        (LogRecord(k, "no_timePeriod", NoName) \in log) =>
            /\ \A p \in 1..Len(data) : data[p].id_no \div 100 # k
            /\ (k = fileNo) =>
                  /\ exc = ""
                  /\ data = dataAtCall
                  /\ pc \in {"fetch", "done"}
                  /\ (fileNo < nFiles) => pc = "fetch"

C10_Witness ==
    \E k \in 1..fileNo :
        /\ k < fileNo
        /\ LogRecord(k, "no_timePeriod", NoName) \in log
        /\ \E p \in 1..Len(data) : data[p].id_no \div 100 = fileNo

\* C11: a message with the analysis step only (n_timestep = 1) is decodable:
\* every member whose analysis position, pressure and wind are defined gets
\* a trajectory of exactly one timestep.
C11_AnalysisOnlyDecodable ==
    (InMemberLoop /\ n_timestep = 1) =>
        \A i \in 0..(ind_ens - 1) :
            (FullyDefined(i) = {1}) =>
                (HasTrack(i) /\ Len(TrackOfMember(i).time) = 1)

\* The first and the second result of _check_variable called on its own.
First == checked[1]

Second == checked[2]

\* C12: on a raw array of the expected length, _check_variable returns an
\* array of that length with NaN wherever the raw array holds the missing
\* sentinel and the raw value everywhere else.
C12_SentinelsBecomeNaN ==
    (Len(checked) >= 1 /\ Len(rawVar) = n_ens) =>
        /\ ~First.raise
        /\ Len(First.val) = Len(rawVar)
        /\ \A i \in 1..Len(rawVar) :
              /\ (rawVar[i] = MISSING_DOUBLE) => First.val[i] = NaN
              /\ (rawVar[i] # MISSING_DOUBLE) => First.val[i] = rawVar[i]

C12_Witness ==
    /\ pc = "checked"
    /\ n_ens = 3
    /\ rawVar = <<MISSING_DOUBLE, FieldValue("lat"), MISSING_DOUBLE>>
    /\ First.val = <<NaN, FieldValue("lat"), NaN>>

\* C13: on a raw array of one missing sentinel, _check_variable returns
\* exactly n_ens NaNs.
C13_SingleMissingBroadcast ==
    (Len(checked) >= 1 /\ rawVar = <<MISSING_DOUBLE>>) =>
        /\ ~First.raise
        /\ Len(First.val) = n_ens
        /\ \A i \in 1..n_ens : First.val[i] = NaN

C13_Witness ==
    /\ pc = "checked"
    /\ n_ens = 3
    /\ rawVar = <<MISSING_DOUBLE>>
    /\ First.val = <<NaN, NaN, NaN>>

\* C14: on a raw array whose length is neither 1 nor n_ens (0 included),
\* _check_variable raises an error that names the field and the mismatch,
\* and returns no array.
C14_MismatchErrorNamesField ==
    (Len(checked) >= 1 /\ Len(rawVar) \notin {1, n_ens}) =>
        /\ First.raise
        /\ First.val = None
        /\ pc = "raised"
        /\ \E k \in 1..Len(First.excArgs) : First.excArgs[k] = varname

\* C15: _check_variable is idempotent on arrays of the expected length: the
\* second call raises nothing and returns what the first returned.
C15_NormalizeIdempotent ==
    (Len(checked) = 2 /\ Len(rawVar) = n_ens) =>
        /\ ~Second.raise
        /\ Second.val = First.val

C15_Witness ==
    /\ pc = "rechecked"
    /\ n_ens = 2
    /\ rawVar = <<MISSING_DOUBLE, NaN>>
    /\ Second.val = <<NaN, NaN>>

\* C16: whenever _check_variable broadcasts one non-missing value to more
\* than one member, a warning naming the field is logged.
C16_BroadcastIsLogged ==
    (Len(checked) >= 1 /\ Len(rawVar) = 1 /\ rawVar[1] # MISSING_DOUBLE /\ n_ens > 1) =>
        /\ First.val = Repeat(rawVar[1], n_ens)
        /\ LogRecord(fileNo, "broadcast", varname) \in log

C16_Witness ==
    /\ pc = "checked"
    /\ n_ens = 3
    /\ rawVar = <<FieldValue("lat")>>
    /\ varname = VarName("Maximum 10m wind", 1)
    /\ First.val = <<FieldValue("lat"), FieldValue("lat"), FieldValue("lat")>>
    /\ log = {LogRecord(fileNo, "broadcast", varname)}

\* The per-timestep arrays of a trajectory.
PerTimestep == {"lat", "lon", "max_sustained_wind", "central_pressure", "time_step",
                "radius_max_wind", "environmental_pressure", "basin"}

\* C17: in every trajectory of the collection the per-timestep arrays all
\* have the length of its valid times.
C17_ArraysOfEqualLength ==
    \A p \in 1..Len(data) :
        \A f \in PerTimestep : Len(data[p][f]) = Len(data[p].time)

C17_Witness ==
    /\ n_timestep = 3
    /\ \E p \in 1..Len(data) :
          /\ Len(data[p].time) = 2
          /\ Len(data[p].basin) = 2
          /\ Len(data[p].lat) = 2

\* C18: the valid times of every trajectory (lead hours after the issuance
\* time) are strictly increasing.
C18_ValidTimesIncrease ==
    \A p \in 1..Len(data) :
        \A k \in 2..Len(data[p].time) : data[p].time[k - 1] < data[p].time[k]

\* C19: among the trajectories of one message at most one has is_ensemble
\* false, and is_ensemble is false exactly for the members of type code 0.
C19_OneDeterministicMember ==
    InMemberLoop =>
        /\ Cardinality({p \in CurrentPositions : ~data[p].is_ensemble}) <= 1
        /\ \A i \in 0..(ind_ens - 1) :
              HasTrack(i) => (TrackOfMember(i).is_ensemble <=> ens_type[i + 1] # 0)

\* The member index of the trajectory at position p (ensemble numbers count
\* the members from 1).
MemberIndex(p) == data[p].ensemble_number - 1

\* The fractional part of a numeric id, in hundredths.
Frac(id) == id % 100

\* C20: member i of a message decoded with base id B has id B + i/100, the
\* fractional part of the id increases strictly with the member index, and
\* no two members of the message have the same id.
C20_IdFractionIncreases ==
    \A p, q \in CurrentPositions :
        /\ data[p].id_no = fileNo * 100 + MemberIndex(p)
        /\ (MemberIndex(p) < MemberIndex(q)) => Frac(data[p].id_no) < Frac(data[q].id_no)
        /\ (p # q) => data[p].id_no # data[q].id_no

\* The winds of member i at the timesteps _subset_to_track retains.
RetainedWinds(i) ==
    {max_wind[i][k] : k \in {j \in 1..n_timestep :
                                max_wind[i][j] # NaN /\ pressure[i][j] # NaN}}

\* C21: the category of a trajectory is the index of the highest class of
\* the thresholds 18, 33, 43, 50, 59, 71, 1000 m/s whose lower threshold is at
\* most the peak wind of the retained timesteps: a peak below 33 is below
\* index 1, a peak of 33 is at index 1 or above.
C21_CategoryFromRetainedPeak ==
    InMemberLoop =>
        \A i \in 0..(ind_ens - 1) :
            HasTrack(i) =>
                LET tr == TrackOfMember(i)
                    th == <<18, 33, 43, 50, 59, 71, 1000>>
                    peak == CHOOSE w \in RetainedWinds(i) : \A x \in RetainedWinds(i) : x <= w
                IN  /\ tr.category = Cardinality({j \in 1..7 : th[j] <= peak}) - 1
                    /\ (peak < 33) => tr.category < 1
                    /\ (peak >= 33) => tr.category >= 1

C21_Witness ==
    /\ InMemberLoop
    /\ HasTrack(0)
    /\ max_wind[0] = <<32, 71, 33>>
    /\ pressure[0][2] = NaN
    /\ TrackOfMember(0).max_sustained_wind = <<32, 33>>
    /\ TrackOfMember(0).category = 1

\* C22: from_hdf5 of the file written by write_hdf5 gives, trajectory by
\* trajectory and in the same order, an is_ensemble that is a boolean equal to
\* the original and a run_datetime that is a timestamp equal to the original.
C22_RoundTripKeepsAttributes ==
    (pc = "hdf5" /\ loaded # None) =>
        /\ Len(loaded) = Len(dataAtCall)
        /\ \A p \in 1..Len(loaded) :
              /\ loaded[p].is_ensemble[1] = "bool"
              /\ loaded[p].is_ensemble = dataAtCall[p].is_ensemble
              /\ loaded[p].run_datetime[1] = "datetime64"
              /\ loaded[p].run_datetime = dataAtCall[p].run_datetime

C22_Witness ==
    /\ pc = "hdf5"
    /\ loaded # None
    /\ Len(loaded) = 2
    /\ loaded[1].is_ensemble = <<"bool", 0>>
    /\ loaded[2].is_ensemble = <<"bool", 1>>
    /\ loaded[1].run_datetime = <<"datetime64", 9>>
    /\ loaded[2].run_datetime = <<"datetime64", 12>>
    /\ h5file[1].run_datetime = <<"str", 0, 9>>

\* C26: after write_hdf5 has returned, and after it has raised because the
\* writer failed, every trajectory's is_ensemble is a boolean and its
\* run_datetime a timestamp, both equal to their values before the call.
C26_WriteLeavesCollection ==
    (pc \in {"hdf5", "raised"}) =>
        /\ Len(data) = Len(dataAtCall)
        /\ \A p \in 1..Len(data) :
              /\ data[p].is_ensemble[1] = "bool"
              /\ data[p].is_ensemble = dataAtCall[p].is_ensemble
              /\ data[p].run_datetime[1] = "datetime64"
              /\ data[p].run_datetime = dataAtCall[p].run_datetime

C26_Witness ==
    /\ pc = "raised"
    /\ exc = "OSError:write_hdf5"
    /\ Len(data) = 2
    /\ data[1].is_ensemble = <<"bool", 1>>
    /\ data[2].run_datetime = <<"datetime64", 23>>
    /\ data = dataAtCall

\* The position in the collection of the trajectory that holds the row of
\* validTime t, and the positions of all the trajectories that hold it.
TracksWith(t) == {p \in 1..Len(data) : \E k \in 1..Len(data[p].time) : data[p].time[k] = t}

\* The first row of the dataframe that belongs to the trajectory at position p.
FirstRowOf(p) ==
    CHOOSE k \in 1..Len(df) :
        /\ TracksWith(df[k].validTime) = {p}
        /\ \A j \in 1..(k - 1) : TracksWith(df[j].validTime) # {p}

\* C23: read_cxml gives one trajectory per distinct key among the retained
\* rows, in the order the keys are first seen; every retained row is in
\* exactly one trajectory, rows of a null member included.
C23_OneTrajectoryPerGroup ==
    (pc = "done") =>
        /\ Len(data) = Cardinality({GroupKey(df[k]) : k \in 1..Len(df)})
        /\ \A k \in 1..Len(df) : Cardinality(TracksWith(df[k].validTime)) = 1
        /\ \A j, k \in 1..Len(df) :
              (TracksWith(df[j].validTime) = TracksWith(df[k].validTime))
                  <=> (GroupKey(df[j]) = GroupKey(df[k]))
        /\ \A p, q \in 1..Len(data) : (p < q) => FirstRowOf(p) < FirstRowOf(q)

C23_Witness ==
    /\ pc = "done"
    /\ Len(df) = 3
    /\ df[1].member = 2
    /\ df[2].member = NaN
    /\ df[3].member = 2
    /\ df[1].basin = df[3].basin
    /\ Len(data) = 2
    /\ data[1].time = <<1, 3>>
    /\ data[2].time = <<2>>
    /\ ~data[2].is_ensemble

\* C24: in every trajectory of read_cxml the environmental_pressure of a
\* timestep is the row's last closed isobar where the source gives one and
\* the default of the row's basin otherwise, not the central pressure.
C24_EnvPressureFromIsobar ==
    (pc = "done") =>
        \A k \in 1..Len(df) :
            \A p \in TracksWith(df[k].validTime) :
                \A j \in 1..Len(data[p].time) :
                    (data[p].time[j] = df[k].validTime) =>
                        /\ df[k].lastClosedIsobar \in {1008, BASIN_ENV_PRESSURE_CXML[df[k].basin]}
                        /\ data[p].environmental_pressure[j] = df[k].lastClosedIsobar

\* Two trajectories of read_cxml belong to the same event.
SameEvent(a, b) ==
    a.run_datetime = b.run_datetime /\ a.basin[1] = b.basin[1]

\* C25: every trajectory of read_cxml has what a trajectory of
\* _subset_to_track has: time_step (first zero, then the differences of
\* consecutive steps), the category, and an id that differs between the
\* members of one event.
C25_SameShapeAsBinary ==
    (pc = "done") =>
        /\ \A p \in 1..Len(data) :
              /\ "time_step" \in DOMAIN data[p]
              /\ "category" \in DOMAIN data[p]
              /\ data[p].time_step[1] = 0
              /\ \A k \in 2..Len(data[p].time) :
                    data[p].time_step[k] = data[p].time[k] - data[p].time[k - 1]
        /\ \A p, q \in 1..Len(data) :
              (p # q /\ SameEvent(data[p], data[q])) => data[p].id_no # data[q].id_no

\* The values get_value_from_bufr_array has returned in the current message:
\* the lead times of the timesteps processed and the last two qualifiers.
ReturnedValues ==
    {timesteps_int[k] : k \in 2..Len(timesteps_int)}
        \cup ({significance, significanceWind} \ {None})

\* C27: get_value_from_bufr_array returns a single scalar for every array
\* with a non-missing value, so a message whose qualifier arrays hold the
\* expected code once per member passes the qualifier checks.
C27_ReturnsScalar ==
    /\ \A v \in ReturnedValues : Len(v) = 1
    /\ exc # "ValueError:truth value of an array"

\* C28: get_value_from_bufr_array raises for every array without a
\* non-missing value: the missing sentinel is never returned as a lead time
\* or as a qualifier.
C28_MissingNeverReturned ==
    \A v \in ReturnedValues : \A k \in 1..Len(v) : v[k] # MISSING_LONG

\* The four accumulated series of the current message.
Accumulated == <<latitude, longitude, pressure, max_wind>>

\* C29: after a timestep has been processed every series of every member has
\* one entry per processed timestep; when the decoding completes that is
\* n_timestep, the length of the lead-time sequence; the members are the same
\* throughout.
C29_SeriesGrowInStep ==
    (pc \in {"timesteps", "members", "close", "raised"} /\ ind_timestep >= 1) =>
        /\ \A f \in 1..4 :
              /\ DOMAIN Accumulated[f] = 0..(n_ens - 1)
              /\ \A i \in 0..(n_ens - 1) : Len(Accumulated[f][i]) = ind_timestep
        /\ Len(timesteps_int) = n_timestep
        /\ (pc \in {"members", "close"}) => ind_timestep = n_timestep

C29_Witness ==
    /\ pc = "members"
    /\ n_ens = 2
    /\ n_timestep = 2
    /\ ind_ens = 0
    /\ \A f \in 1..4 : Len(Accumulated[f][1]) = 2

\* C30: whatever the messages fetch_ecmwf has processed and however many
\* members they have, no two trajectories of the collection have the same
\* numeric id, trajectories of different messages included.
C30_IdsDifferAcrossMessages ==
    \A p, q \in 1..Len(data) : (p < q) => data[p].id_no # data[q].id_no
====
